---- MODULE Spec2Model ----
(***************************************************************************)
(* Weighted sequence allocation of ywyself/CodeProject:                    *)
(*   src/python/weighted_group_assigner.py   (class WeightedGroupAssigner) *)
(*   src/python/weighted_data_distributor.py (distribute_by_weights)       *)
(* and three of its wrappers, each with a specification of its own:        *)
(*   src/python/run_shell_example.py         (exec_command)                *)
(*   src/python/airflow/airflow-spark-submit.py                            *)
(*                                           (wait_driver_and_get_name)    *)
(*   src/python/flink/flink_sql_gateway.py   (wait_until_finished)         *)
(*                                                                         *)
(* A weight map is an ordered dict; it is modelled as the sequence of its  *)
(* values, aligned with Keys.  The input list is data = [1, ..., total]:   *)
(* an item is identified with its (1-based) input position, so data[i:j]   *)
(* in Python is the sequence <<i+1, ..., j>> here.                         *)
(*                                                                         *)
(* Python's float is an IEEE-754 binary64.  The quotients, products and    *)
(* differences the code takes are computed here exactly as the hardware    *)
(* does, with round-to-nearest-even at a 53 bit significand, because the   *)
(* order of the fractional remainders decides who receives the extra units.*)
(***************************************************************************)
EXTENDS Integers, Sequences, FiniteSets, TLC

\* ------------------------------------------------------------------ bounds
MaxWeight == 4
MaxLen == 7
MaxBlock == 3

\* The keys of the weight maps of the examples, in insertion order.
Keys == <<"A", "B", "C">>
N == Len(Keys)
Groups == 1..N

\* ------------------------------------------------------- binary64 numbers
\* Significand width of a Python float (IEEE-754 binary64).
MantissaBits == 53

\* A fraction is kept as a sequence of limbs of LimbBits bits each, most
\* significant first: 0.f = sum of f[i] * 2^(-LimbBits * i).
LimbBits == 16
Base == 2^LimbBits

Max2(a, b) == IF a >= b THEN a ELSE b
Min2(a, b) == IF a <= b THEN a ELSE b

RECURSIVE BitLen(_)
\* int.bit_length() of n >= 1.
BitLen(n) == IF n <= 1 THEN 1 ELSE 1 + BitLen(n \div 2)

\* A fraction's limbs without its trailing zero limbs.
Canon(limbs) ==
  LET nz == {i \in 1..Len(limbs) : limbs[i] # 0}
  IN  IF nz = {} THEN <<>>
      ELSE SubSeq(limbs, 1, CHOOSE i \in nz : \A j \in nz : j <= i)

\* A non-negative float: ip + 0.fr.
Flt(ip, limbs) == [ip |-> ip, fr |-> Canon(limbs)]

RECURSIVE DivLimbs(_, _, _)
\* The first n limbs of the binary expansion of r/s (0 <= r < s).
DivLimbs(r, s, n) ==
  IF n = 0 THEN <<>>
  ELSE <<(r * Base) \div s>> \o DivLimbs((r * Base) % s, s, n - 1)

RECURSIVE DivRem(_, _, _)
\* The remainder left after n limbs of r/s.
DivRem(r, s, n) == IF n = 0 THEN r ELSE DivRem((r * Base) % s, s, n - 1)

RECURSIVE FirstOne(_, _)
\* Position of the first 1 in the binary expansion of r/s, 0 < r < s.
FirstOne(r, s) == IF 2 * r >= s THEN 1 ELSE 1 + FirstOne(2 * r, s)

\* Position of the first 1 bit of a fraction that is not 0.
FirstSet(limbs) ==
  LET i == CHOOSE q \in 1..Len(limbs) :
             limbs[q] # 0 /\ \A j \in 1..(q - 1) : limbs[j] = 0
  IN  (i - 1) * LimbBits + (LimbBits - BitLen(limbs[i])) + 1

RECURSIVE AddAt(_, _, _)
\* limbs with c added to limb i: <<carry out of the fraction, limbs>>.
AddAt(limbs, i, c) ==
  IF i = 0 THEN <<c, limbs>>
  ELSE AddAt([limbs EXCEPT ![i] = (@ + c) % Base], i - 1,
             (limbs[i] + c) \div Base)

\* Number of fraction bits a float in the binade of ip + 0.f keeps, where
\* p is the position of the fraction's first 1 (used when ip = 0).
FracWidth(ip, p) ==
  IF ip > 0 THEN MantissaBits - BitLen(ip) ELSE MantissaBits - 1 + p

\* ip + 0.limbs (+ something below the last limb when sticky) rounded to k >= 1
\* fraction bits: round to nearest, ties to even.
RoundTo(ip, limbs, k, sticky) ==
  IF k >= Len(limbs) * LimbBits THEN Flt(ip, limbs)
  ELSE LET q    == (k - 1) \div LimbBits + 1      \* the limb of bit k
           unit == 2^(LimbBits - 1 - ((k - 1) % LimbBits))  \* bit k in it
           drop == limbs[q] % unit
           kept == SubSeq(limbs, 1, q - 1) \o <<limbs[q] - drop>>
           last == (limbs[q] \div unit) % 2
           \* the bits below bit k, as <<first bit, any later bit set>>
           below == IF unit > 1
                    THEN <<drop \div (unit \div 2),
                           \/ drop % (unit \div 2) # 0
                           \/ \E j \in (q + 1)..Len(limbs) : limbs[j] # 0>>
                    ELSE <<limbs[q + 1] \div (Base \div 2),
                           \/ limbs[q + 1] % (Base \div 2) # 0
                           \/ \E j \in (q + 2)..Len(limbs) : limbs[j] # 0>>
           up   == below[1] = 1 /\ (below[2] \/ sticky \/ last = 1)
           sum  == AddAt(kept, q, unit)
       IN  IF up THEN Flt(ip + sum[1], sum[2]) ELSE Flt(ip, kept)

\* a / s for ints a >= 0, s > 0: the correctly rounded quotient.
fdiv(a, s) ==
  LET ip == a \div s
      r  == a % s
  IN  IF r = 0 THEN Flt(ip, <<>>)
      ELSE LET k == FracWidth(ip, FirstOne(r, s))
               n == k \div LimbBits + 1
           IN  RoundTo(ip, DivLimbs(r, s, n), k, DivRem(r, s, n) # 0)

RECURSIVE MulLimbs(_, _, _)
\* limbs[i..] * n: <<carry out to limb i - 1, the product's limbs i..>>.
MulLimbs(limbs, i, n) ==
  IF i > Len(limbs) THEN <<0, <<>>>>
  ELSE LET t == MulLimbs(limbs, i + 1, n)
           v == limbs[i] * n + t[1]
       IN  <<v \div Base, <<v % Base>> \o t[2]>>

\* x * n for a float x >= 0 and an int n >= 0: the exact product, rounded.
fmul(x, n) ==
  LET m     == MulLimbs(x.fr, 1, n)
      ip    == x.ip * n + m[1]
      limbs == Canon(m[2])
  IN  IF limbs = <<>> THEN Flt(ip, limbs)
      ELSE RoundTo(ip, limbs, FracWidth(ip, FirstSet(limbs)), FALSE)

\* math.floor(x) and int(x) of a non-negative float.
ffloor(x) == x.ip

\* x - floor(x): exact in binary64.
ffrac(x) == x.fr

\* f < g for two fractions.
FracLess(f, g) ==
  LET L == Max2(Len(f), Len(g))
      F(i) == IF i <= Len(f) THEN f[i] ELSE 0
      G(i) == IF i <= Len(g) THEN g[i] ELSE 0
  IN  \E i \in 1..L : F(i) < G(i) /\ \A j \in 1..(i - 1) : F(j) = G(j)

\* ------------------------------------------------------------ weight maps
RECURSIVE SumTo(_, _)
\* f[1] + ... + f[n].
SumTo(f, n) == IF n = 0 THEN 0 ELSE f[n] + SumTo(f, n - 1)

\* sum(weights.values()) and the like.
Sum(f) == SumTo(f, N)

\* A Python list built by a comprehension: its elements are computed once.
List(f) == SubSeq(f, 1, N)

\* data[lo:hi] of data = [1, ..., total] (Python slice bounds, clipped).
Slice(lo, hi, total) ==
  [j \in 1..Max2(0, Min2(hi, total) - Min2(lo, total)) |-> Min2(lo, total) + j]

\* ------------------------------------------- WeightedGroupAssigner (quotas)
\* Order of sorted(range(len(keys)), key=lambda i: (-remainder[i], i)):
\* the larger remainder first, the earlier position on equal remainders.
ComesBefore(remainder, i, j) ==
  \/ FracLess(remainder[j], remainder[i])
  \/ remainder[i] = remainder[j] /\ i < j

\* largest_remainder_method without lines 46-50: the floors alone.
largest_remainder_method_floors(total, weights) ==
  LET s == Sum(weights)
  IN  IF s = 0 \/ total = 0 THEN [k \in Groups |-> 0]
      ELSE [k \in Groups |-> ffloor(fdiv(weights[k] * total, s))]

\* largest_remainder_method with every extra unit given to the first of the
\* ranking (floored[indices[0]] += 1 in place of floored[indices[i]] += 1).
largest_remainder_method_first(total, weights) ==
  LET s == Sum(weights)
  IN  IF s = 0 \/ total = 0 THEN [k \in Groups |-> 0]
      ELSE LET raw       == List([i \in Groups |-> fdiv(weights[i] * total, s)])
               floored   == List([i \in Groups |-> ffloor(raw[i])])
               remainder == List([i \in Groups |-> ffrac(raw[i])])
               to_assign == total - Sum(floored)
               first     == CHOOSE i \in Groups :
                              \A j \in Groups \ {i} : ComesBefore(remainder, i, j)
           IN  [k \in Groups |->
                  floored[k] + (IF k = first THEN to_assign ELSE 0)]

\* WeightedGroupAssigner._largest_remainder_method(total, weights)
largest_remainder_method(total, weights) ==
  LET s == Sum(weights)
  IN  IF s = 0 \/ total = 0 THEN [k \in Groups |-> 0]
      ELSE LET raw       == List([i \in Groups |-> fdiv(weights[i] * total, s)])
               floored   == List([i \in Groups |-> ffloor(raw[i])])
               remainder == List([i \in Groups |-> ffrac(raw[i])])
               assigned  == Sum(floored)
               to_assign == total - assigned
               indices   == List([r \in Groups |->
                               CHOOSE i \in Groups :
                                 Cardinality({j \in Groups :
                                    ComesBefore(remainder, j, i)}) = r - 1])
           IN  [k \in Groups |->
                  floored[k]
                  + Cardinality({r \in 1..to_assign : indices[r] = k})]

RECURSIVE Gcd(_, _)
\* math.gcd(a, b) for a, b >= 0.
Gcd(a, b) == IF b = 0 THEN a ELSE Gcd(b, a % b)

RECURSIVE GcdTo(_, _)
GcdTo(f, n) == IF n = 1 THEN f[1] ELSE Gcd(GcdTo(f, n - 1), f[n])

\* WeightedGroupAssigner._gcd_list(numbers): functools.reduce(math.gcd, numbers)
gcd_list(numbers) == GcdTo(numbers, N)

\* {k: [] for k in keys}
EmptyResult == [k \in Groups |-> <<>>]

\* {k: 0 for k in keys}
ZeroCounts == [k \in Groups |-> 0]

\* ---------------------------------------------------------------- state
VARIABLES
  weights,        \* self.weights / the weights argument: the values, in key order
  pc,             \* "idle", the loop a call is in, "done" (returned), "raised"
  api,            \* "assign" or "distribute_by_weights"
  mode,           \* the mode / strategy argument
  total,          \* len(data)
  block_size,     \* the block_size argument
  counts,         \* counts (block_interleaved), final_counts (gcd_interleaved)
  total_counts,   \* total_counts (block_interleaved), distributed (gcd_interleaved)
  result,         \* result: key -> list of items
  data_idx,       \* data_idx
  key,            \* position of `for k in keys`
  can_distribute, \* can_distribute (gcd_interleaved)
  error           \* the exception a raised call ended with

\* ------------------------------------ state of the other programs
\* exec_command (run_shell_example.py)
VARIABLES
  proc,              \* the command: "none", "running", "exited" (by itself),
                     \*   "terminated" (after SIGTERM), "killed" (by SIGKILL)
  stdout,            \* proc.stdout: the lines written and not yet read
  output_lines,      \* output_lines
  kill_signal,       \* kill_signal (threading.Event)
  thread,            \* read_proc_stdout: "none", "readline", "set", "ended"
  main,              \* position of the caller's thread in exec_command
  elapsed,           \* time.time() - start_time, in units of interval
  predicate_to_kill, \* TRUE: a predicate is given; FALSE: None
  max_exec_timeout,  \* max_exec_timeout, in units of interval
  wait_before_kill,  \* wait_before_kill
  signals,           \* the signals terminate_proc_gracefully has sent
  branch,            \* the branch that left the polling loop (its [INFO] line)
  ret                \* the dict returned: returncode and success

execVars == <<proc, stdout, output_lines, kill_signal, thread, main, elapsed,
              predicate_to_kill, max_exec_timeout, wait_before_kill, signals,
              branch, ret>>

\* exec_command has not been called.
NoCommand ==
  /\ proc = "none" /\ stdout = <<>> /\ output_lines = <<>>
  /\ kill_signal = FALSE /\ thread = "none" /\ main = "idle"
  /\ elapsed = 0 /\ predicate_to_kill = FALSE /\ max_exec_timeout = 0
  /\ wait_before_kill = 0 /\ signals = <<>> /\ branch = "none"
  /\ ret = [returncode |-> "none", success |-> FALSE]

\* wait_driver_and_get_name (airflow-spark-submit.py)
VARIABLES
  wait_pc,        \* position in wait_driver_and_get_name
  xcom,           \* the XCom of the task: the <<key, value>> pairs pushed
  seen_start,     \* seen_start
  submit_waited,  \* time.time() - submit_start_ts, in submit_check_intervals
  pod_waited,     \* time.time() - pod_start, in pod_check_intervals
  wait_ret,       \* the value returned
  return_line     \* the line of the return statement taken (0: none yet)

waitVars == <<wait_pc, xcom, seen_start, submit_waited, pod_waited, wait_ret,
              return_line>>

\* wait_driver_and_get_name has not been called.
NoWait ==
  /\ wait_pc = "idle" /\ xcom = {} /\ seen_start = FALSE
  /\ submit_waited = 0 /\ pod_waited = 0
  /\ wait_ret = "none" /\ return_line = 0

\* FlinkSQLGatewayClient.wait_until_finished (flink_sql_gateway.py)
VARIABLES
  flink_pc,       \* position in wait_until_finished
  flink_status,   \* status: what the last poll reported
  reported,       \* the statuses the operation has reported, poll by poll
  flink_error     \* the exception the call ended with

flinkVars == <<flink_pc, flink_status, reported, flink_error>>

\* wait_until_finished has not been called.
NoFlink ==
  /\ flink_pc = "idle" /\ flink_status = "unset" /\ reported = <<>>
  /\ flink_error = "none"

\* ------------------------------------------------ allocator, continued
VARIABLES
  data,           \* the data argument of the call in progress
  caller_weights, \* the dict the caller passed to __init__, in key order
  earlier         \* a call made earlier on the instance, and how it ended

callerVars == <<caller_weights, earlier>>

\* No earlier call is kept.
NoCall == [mode |-> "none", total |-> 0, block_size |-> 1,
           pc |-> "none", error |-> "none", result |-> EmptyResult]

\* The instance has just been built from caller_weights: self.weights holds
\* the values the caller's dict has.
FreshInstance == data = <<>> /\ caller_weights = weights /\ earlier = NoCall

\* What an allocator call does not touch: the other programs of the
\* repository and the caller's own dict.
elsewhere == <<execVars, waitVars, flinkVars, callerVars>>

args   == <<api, mode, total, block_size, data>>
locals == <<counts, total_counts, result, data_idx, key, can_distribute>>
allocVars == <<weights, pc, error, args, locals, callerVars>>
vars   == <<allocVars, elsewhere>>

AssignModes == {"chunk", "block_interleaved", "gcd_interleaved"}
Strategies  == {"proportional", "round_robin", "sequential_fill"}
\* A name outside both sets.
BadName     == "bogus"

WeightMaps == [Groups -> 0..MaxWeight]

\* The values of the block_size argument: positive ones, 0 and a negative one.
BlockSizes == (-1)..MaxBlock

Init ==
  /\ weights \in WeightMaps
  /\ pc = "idle"
  /\ error = "none"
  /\ api = "none" /\ mode = "none" /\ total = 0 /\ block_size = 1
  /\ counts = ZeroCounts /\ total_counts = ZeroCounts
  /\ result = EmptyResult
  /\ data_idx = 0 /\ key = 1 /\ can_distribute = FALSE
  /\ FreshInstance
  /\ NoCommand /\ NoWait /\ NoFlink

\* A call is entered with its arguments; the locals are fresh.
Enter(a, m, n, b) ==
  /\ pc = "idle"
  /\ api' = a /\ mode' = m /\ total' = n /\ block_size' = b
  /\ data' = Slice(0, n, n)
  /\ UNCHANGED <<weights, elsewhere>>

\* A call that ends at once, returning r.
Returns(r) ==
  /\ pc' = "done" /\ error' = "none" /\ result' = r
  /\ UNCHANGED <<counts, total_counts, data_idx, key, can_distribute>>

\* A call that ends at once with exception e.
Raises(e) ==
  /\ pc' = "raised" /\ error' = e
  /\ UNCHANGED locals

\* ------------------------------------------------ WeightedGroupAssigner
\* assign_chunk without `idx += cnt`: every slice starts at 0.
assign_chunk_overlap(n, w) ==
  LET c == largest_remainder_method(n, w)
  IN  [k \in Groups |-> Slice(0, c[k], n)]

\* WeightedGroupAssigner._assign_chunk(data), len(data) = n
assign_chunk(n, w) ==
  LET c   == largest_remainder_method(n, w)
      idx == [k \in Groups |-> SumTo(c, k - 1)]
  IN  [k \in Groups |-> Slice(idx[k], idx[k] + c[k], n)]

\* round_counts of _assign_gcd_interleaved: the weights over their gcd.
round_counts(w) == [k \in Groups |-> w[k] \div gcd_list(w)]

\* assign: `if len(self.weights) == 0 or len(data) == 0`, before the mode is
\* looked at.
AssignEmpty ==
  \E m \in AssignModes \cup {BadName}, b \in BlockSizes :
    /\ Enter("assign", m, 0, b)
    /\ Returns(EmptyResult)

\* assign(data, mode='chunk'), len(data) = n
ChunkCall(n) ==
  /\ Enter("assign", "chunk", n, 1)
  /\ Returns(assign_chunk(n, weights))

AssignChunk == \E n \in 1..MaxLen : ChunkCall(n)

\* assign: the final else.
AssignBadMode ==
  \E n \in 1..MaxLen :
    /\ Enter("assign", BadName, n, 1)
    /\ Raises("ValueError")

\* _assign_block_interleaved up to the first test of `while data_idx < total`
\* (true, as assign passes no empty list on).
BlockEnter(n, b) ==
  /\ Enter("assign", "block_interleaved", n, b)
  /\ counts' = largest_remainder_method(n, weights)
  /\ total_counts' = ZeroCounts
  /\ result' = EmptyResult
  /\ data_idx' = 0
  /\ key' = 1
  /\ pc' = "block_interleaved"
  /\ UNCHANGED <<can_distribute, error>>

BlockStart == \E n \in 1..MaxLen, b \in BlockSizes : BlockEnter(n, b)

\* BlockVisit with take = block_size: the cap min(block_size, need) left out.
BlockVisit_uncapped ==
  /\ pc = "block_interleaved"
  /\ LET take == block_size
         idx2 == IF take > 0 /\ data_idx < total THEN data_idx + take
                 ELSE data_idx
     IN  /\ IF take > 0 /\ data_idx < total
            THEN /\ result' = [result EXCEPT ![key] =
                                 @ \o Slice(data_idx, data_idx + take, total)]
                 /\ total_counts' = [total_counts EXCEPT ![key] = @ + take]
            ELSE UNCHANGED <<result, total_counts>>
         /\ data_idx' = idx2
         /\ IF key < N THEN key' = key + 1 /\ pc' = pc
            ELSE IF idx2 < total THEN key' = 1 /\ pc' = pc
            ELSE key' = key /\ pc' = "done"
  /\ UNCHANGED <<weights, elsewhere, args, counts, can_distribute, error>>

\* BlockVisit with take = min(1, need): a visit gives one item at most.
BlockVisit_single ==
  /\ pc = "block_interleaved"
  /\ LET need == counts[key] - total_counts[key]
         take == Min2(1, need)
         idx2 == IF take > 0 /\ data_idx < total THEN data_idx + take
                 ELSE data_idx
     IN  /\ IF take > 0 /\ data_idx < total
            THEN /\ result' = [result EXCEPT ![key] =
                                 @ \o Slice(data_idx, data_idx + take, total)]
                 /\ total_counts' = [total_counts EXCEPT ![key] = @ + take]
            ELSE UNCHANGED <<result, total_counts>>
         /\ data_idx' = idx2
         /\ IF key < N THEN key' = key + 1 /\ pc' = pc
            ELSE IF idx2 < total THEN key' = 1 /\ pc' = pc
            ELSE key' = key /\ pc' = "done"
  /\ UNCHANGED <<weights, elsewhere, args, counts, can_distribute, error>>

\* BlockVisit without `data_idx += take`.
BlockVisit_stuck ==
  /\ pc = "block_interleaved"
  /\ LET need == counts[key] - total_counts[key]
         take == Min2(block_size, need)
     IN  /\ IF take > 0 /\ data_idx < total
            THEN /\ result' = [result EXCEPT ![key] =
                                 @ \o Slice(data_idx, data_idx + take, total)]
                 /\ total_counts' = [total_counts EXCEPT ![key] = @ + take]
            ELSE UNCHANGED <<result, total_counts>>
         /\ data_idx' = data_idx
         /\ IF key < N THEN key' = key + 1 /\ pc' = pc
            ELSE IF data_idx < total THEN key' = 1 /\ pc' = pc
            ELSE key' = key /\ pc' = "done"
  /\ UNCHANGED <<weights, elsewhere, args, counts, can_distribute, error>>

\* One pass of the body of `for k in keys` of _assign_block_interleaved, and,
\* after the last key, the test of `while data_idx < total`.
BlockVisit ==
  /\ pc = "block_interleaved"
  /\ LET need == counts[key] - total_counts[key]
         take == Min2(block_size, need)
         idx2 == IF take > 0 /\ data_idx < total THEN data_idx + take
                 ELSE data_idx
     IN  /\ IF take > 0 /\ data_idx < total
            THEN /\ result' = [result EXCEPT ![key] =
                                 @ \o Slice(data_idx, data_idx + take, total)]
                 /\ total_counts' = [total_counts EXCEPT ![key] = @ + take]
            ELSE UNCHANGED <<result, total_counts>>
         /\ data_idx' = idx2
         /\ IF key < N THEN key' = key + 1 /\ pc' = pc
            ELSE IF idx2 < total THEN key' = 1 /\ pc' = pc
            ELSE key' = key /\ pc' = "done"
  /\ UNCHANGED <<weights, elsewhere, args, counts, can_distribute, error>>

\* _assign_gcd_interleaved up to the first round; `w // gcd_val` raises when
\* every weight is 0.
GcdEnter(n) ==
  /\ Enter("assign", "gcd_interleaved", n, 1)
  /\ IF gcd_list(weights) = 0
     THEN Raises("ZeroDivisionError")
     ELSE /\ counts' = largest_remainder_method(n, weights)
          /\ total_counts' = ZeroCounts
          /\ result' = EmptyResult
          /\ data_idx' = 0
          /\ key' = 1
          /\ can_distribute' = FALSE
          /\ pc' = "gcd_interleaved"
          /\ error' = error

GcdStart == \E n \in 1..MaxLen : GcdEnter(n)

\* One pass of the body of `for k in keys` inside `while True`, and, after the
\* last key, `if not can_distribute: break`.
GcdVisit ==
  /\ pc = "gcd_interleaved"
  /\ LET rc   == round_counts(weights)[key]
         fits == total_counts[key] + rc <= counts[key]
         \* the inner `for _ in range(round_counts[k])` appends while
         \* data_idx < total and distributed[k] < final_counts[k]
         m    == IF fits
                 THEN Min2(rc, Min2(total - data_idx,
                                    counts[key] - total_counts[key]))
                 ELSE 0
         can2 == can_distribute \/ m > 0
     IN  /\ result' = [result EXCEPT ![key] =
                         @ \o Slice(data_idx, data_idx + m, total)]
         /\ total_counts' = [total_counts EXCEPT ![key] = @ + m]
         /\ data_idx' = data_idx + m
         /\ IF key < N THEN key' = key + 1 /\ can_distribute' = can2 /\ pc' = pc
            ELSE IF can2 THEN key' = 1 /\ can_distribute' = FALSE /\ pc' = pc
            ELSE key' = key /\ can_distribute' = can2 /\ pc' = "gcd_left"
  /\ UNCHANGED <<weights, elsewhere, args, counts, error>>

\* GcdLeft without lines 134-142: the items left are dropped.
GcdLeft_dropped ==
  /\ pc = "gcd_left"
  /\ pc' = "done"
  /\ UNCHANGED <<weights, elsewhere, args, locals, error>>

\* The part of _assign_gcd_interleaved after the loop: the items left go to the
\* groups by their open counts, in key order.
GcdLeft ==
  /\ pc = "gcd_left"
  /\ LET left_counts == [k \in Groups |-> Max2(0, counts[k] - total_counts[k])]
         idx         == [k \in Groups |-> SumTo(left_counts, k - 1)]
     IN  result' = [k \in Groups |->
                      result[k] \o Slice(data_idx + idx[k],
                                         data_idx + idx[k] + left_counts[k],
                                         total)]
  /\ pc' = "done"
  /\ UNCHANGED <<weights, elsewhere, args, counts, total_counts, data_idx, key,
                 can_distribute, error>>

\* ------------------------------------------------- distribute_by_weights
\* TakeTurns with result[key].insert(0, ...) in place of append.
TakeTurns_front(res, order, index, n) ==
  [k \in Groups |->
     LET r == CHOOSE q \in 1..Len(order) : order[q] = k
         cnt == IF n - index >= r
                THEN (n - index - r) \div Len(order) + 1 ELSE 0
     IN  [j \in 1..cnt |-> index + r + (j - 1) * Len(order)] \o res[k]]

\* The keys that receive the items left over, one each in turn:
\* `while index < len(data): for key in order: append`, for order a list of
\* keys and `left` items left from position index on.
TakeTurns(res, order, index, n) ==
  [k \in Groups |->
     res[k] \o LET r == CHOOSE q \in 1..Len(order) : order[q] = k
                   cnt == IF n - index >= r
                          THEN (n - index - r) \div Len(order) + 1 ELSE 0
               IN  [j \in 1..cnt |-> index + r + (j - 1) * Len(order)]]

\* _allocate_remainder_proportional(result, data, index, remainder, weights,
\* total_weight), len(data) = n: the result dict after the call.
allocate_remainder_proportional(res, n, index, remainder, w, total_weight) ==
  LET share   == List([k \in Groups |->
                         fmul(fdiv(w[k], total_weight), remainder)])
      \* quotas[key] = (int(share), share - int(share))
      integer_part == List([k \in Groups |-> ffloor(share[k])])
      fraction     == List([k \in Groups |-> ffrac(share[k])])
      idx     == [k \in Groups |-> index + SumTo(integer_part, k - 1)]
      res1    == [k \in Groups |->
                    res[k] \o Slice(idx[k], idx[k] + integer_part[k], n)]
      index1  == index + Sum(integer_part)
      \* sorted(quotas.keys(), key=fraction, reverse=True): a stable sort
      before(i, j) == \/ FracLess(fraction[j], fraction[i])
                      \/ fraction[i] = fraction[j] /\ i < j
      sorted_keys == List([r \in Groups |->
                        CHOOSE i \in Groups :
                          Cardinality({j \in Groups : before(j, i)}) = r - 1])
  IN  TakeTurns(res1, sorted_keys, index1, n)

\* _allocate_remainder_round_robin(result, data, index, remainder, weights)
allocate_remainder_round_robin(res, n, index, remainder, w) ==
  TakeTurns(res, [k \in Groups |-> k], index, n)

\* _allocate_remainder_sequential(result, data, index, remainder, weights):
\* the first key takes items until remainder is 0, and the loop breaks.
allocate_remainder_sequential(res, n, index, remainder, w) ==
  [k \in Groups |->
     IF k = 1 THEN res[k] \o Slice(index, index + remainder, n) ELSE res[k]]

\* distribute_by_weights(data, weights, strategy), len(data) = n > 0 and
\* sum(weights.values()) > 0: [error, result].
distribute_by_weights(n, w, strategy) ==
  LET total_weight == Sum(w)
      full_round   == n \div total_weight
      remainder    == n % total_weight
      take         == [k \in Groups |-> w[k] * full_round]
      start        == [k \in Groups |-> SumTo(take, k - 1)]
      res          == [k \in Groups |-> Slice(start[k], start[k] + take[k], n)]
      index        == Sum(take)
  IN  IF remainder > 0
      THEN CASE strategy = "proportional" ->
                  [error |-> "none",
                   result |-> allocate_remainder_proportional(
                                res, n, index, remainder, w, total_weight)]
             [] strategy = "round_robin" ->
                  [error |-> "none",
                   result |-> allocate_remainder_round_robin(
                                res, n, index, remainder, w)]
             [] strategy = "sequential_fill" ->
                  [error |-> "none",
                   result |-> allocate_remainder_sequential(
                                res, n, index, remainder, w)]
             [] OTHER -> [error |-> "ValueError", result |-> res]
      ELSE [error |-> "none", result |-> res]

\* distribute_by_weights: `if not data`, before anything else.
DistributeEmpty ==
  \E m \in Strategies \cup {BadName} :
    /\ Enter("distribute_by_weights", m, 0, 1)
    /\ Returns(EmptyResult)

\* distribute_by_weights on a non-empty list; divmod(num_items, 0) raises.
DistributeCall(n, m) ==
  /\ Enter("distribute_by_weights", m, n, 1)
  /\ IF Sum(weights) = 0
     THEN Raises("ZeroDivisionError")
     ELSE LET d == distribute_by_weights(n, weights, m)
          IN  IF d.error = "none" THEN Returns(d.result)
              ELSE Raises(d.error)

Distribute ==
  \E n \in 1..MaxLen, m \in Strategies \cup {BadName} : DistributeCall(n, m)

\* The caller has the outcome; the next call starts with fresh locals.
Return ==
  /\ pc \in {"done", "raised"}
  /\ pc' = "idle"
  /\ error' = "none"
  /\ api' = "none" /\ mode' = "none" /\ total' = 0 /\ block_size' = 1
  /\ data' = <<>>
  /\ counts' = ZeroCounts /\ total_counts' = ZeroCounts
  /\ result' = EmptyResult
  /\ data_idx' = 0 /\ key' = 1 /\ can_distribute' = FALSE
  /\ UNCHANGED <<weights, elsewhere>>

Next ==
  \/ AssignEmpty
  \/ AssignChunk
  \/ AssignBadMode
  \/ BlockStart
  \/ BlockVisit
  \/ GcdStart
  \/ GcdVisit
  \/ GcdLeft
  \/ DistributeEmpty
  \/ Distribute
  \/ Return

\* --------------------------------------- several calls on one instance
\* Return, the caller keeping the call and its outcome to compare a later
\* call with.
Remember ==
  /\ pc \in {"done", "raised"}
  /\ earlier' = [mode |-> mode, total |-> total, block_size |-> block_size,
                 pc |-> pc, error |-> error, result |-> result]
  /\ pc' = "idle"
  /\ error' = "none"
  /\ api' = "none" /\ mode' = "none" /\ total' = 0 /\ block_size' = 1
  /\ data' = <<>>
  /\ counts' = ZeroCounts /\ total_counts' = ZeroCounts
  /\ result' = EmptyResult
  /\ data_idx' = 0 /\ key' = 1 /\ can_distribute' = FALSE
  /\ UNCHANGED <<weights, caller_weights, execVars, waitVars, flinkVars>>

\* __init__ with `self.weights = weights`: the instance shares the caller's
\* dict, and a write to it is a write to self.weights.
MutateCallerDict_aliased ==
  /\ pc = "idle"
  /\ caller_weights # ZeroCounts
  /\ caller_weights' = ZeroCounts
  /\ weights' = caller_weights'
  /\ UNCHANGED <<pc, error, args, locals, earlier, execVars, waitVars,
                 flinkVars>>

\* Between two calls the caller writes to the dict it built the instance
\* from (`for k in weights: weights[k] = 0`); self.weights is the copy of
\* line 27.
MutateCallerDict ==
  /\ pc = "idle"
  /\ caller_weights # ZeroCounts
  /\ caller_weights' = ZeroCounts
  /\ UNCHANGED <<weights, pc, error, args, locals, earlier, execVars,
                 waitVars, flinkVars>>

\* The instances the calls are repeated on: positive weights that sum to
\* MaxWeight.
InstanceWeightMaps ==
  {w \in WeightMaps : (\A k \in Groups : w[k] > 0) /\ Sum(w) = MaxWeight}

InstanceInit == Init /\ weights \in InstanceWeightMaps

\* The calls of assign on one instance, in any number and order.
InstanceNext ==
  \/ AssignEmpty
  \/ AssignChunk
  \/ AssignBadMode
  \/ BlockStart
  \/ BlockVisit
  \/ GcdStart
  \/ GcdVisit
  \/ GcdLeft
  \/ Return
  \/ Remember
  \/ MutateCallerDict


\* ------------------------------------------- the two quota computations
\* The longest list the two computations are compared on.
MaxTotal == 10

\* Weight maps of positive integers.
PositiveWeightMaps == {w \in WeightMaps : \A k \in Groups : w[k] > 0}

QuotaInit == Init /\ weights \in PositiveWeightMaps

\* distribute_by_weights(data, weights, 'proportional'), len(data) up to
\* MaxTotal.
DistributeProportional ==
  \E n \in 1..MaxTotal : DistributeCall(n, "proportional")

QuotaNext ==
  \/ DistributeProportional
  \/ Return

\* ------------------------------------------------ the `__main__` example
\* data = list(range(1, 21)): 20 items.
ExampleLen == 20

\* weights = {'A': 2, 'B': 3, 'C': 5}
ExampleWeights == <<2, 3, 5>>

\* The block sizes from 1 to len(data); the example calls use 2, 1 and
\* len(data).
ExampleBlockSizes == 1..ExampleLen

ExampleInit ==
  /\ weights = ExampleWeights
  /\ pc = "idle"
  /\ error = "none"
  /\ api = "none" /\ mode = "none" /\ total = 0 /\ block_size = 1
  /\ counts = ZeroCounts /\ total_counts = ZeroCounts
  /\ result = EmptyResult
  /\ data_idx = 0 /\ key = 1 /\ can_distribute = FALSE
  /\ FreshInstance
  /\ NoCommand /\ NoWait /\ NoFlink

\* assigner.assign(data, mode='chunk')
ExampleChunk == ChunkCall(ExampleLen)

\* assigner.assign(data, mode='block_interleaved', block_size=...)
ExampleBlock == \E b \in ExampleBlockSizes : BlockEnter(ExampleLen, b)

\* assigner.assign(data, mode='gcd_interleaved')
ExampleGcd == GcdEnter(ExampleLen)

ExampleNext ==
  \/ ExampleChunk
  \/ ExampleBlock
  \/ BlockVisit
  \/ ExampleGcd
  \/ GcdVisit
  \/ GcdLeft
  \/ Return


\* ------------------------------------- weight maps with a negative weight
\* __init__ takes every non-empty dict.  The maps here hold a negative weight
\* and have a sum of -1, 0 or 1, so that every w * total / s is an integer:
\* raw is exact, floored = raw, every remainder is 0.0 and to_assign = 0.
NegWeightMaps ==
  {w \in [Groups -> (-1)..1] :
     (\E k \in Groups : w[k] < 0) /\ Sum(w) \in {-1, 0, 1}}

\* _largest_remainder_method(n, w) for w \in NegWeightMaps (1 / s = s).
largest_remainder_method_unit(n, w) ==
  LET s == Sum(w)
  IN  IF s = 0 \/ n = 0 THEN ZeroCounts
      ELSE [k \in Groups |-> w[k] * n * s]

\* data[lo:hi] of data = [1, ..., n] for any integers lo, hi: a negative
\* bound counts from the end, and both are clipped to 0..n.
PySlice(lo, hi, n) ==
  LET from == IF lo < 0 THEN Max2(lo + n, 0) ELSE Min2(lo, n)
      to   == IF hi < 0 THEN Max2(hi + n, 0) ELSE Min2(hi, n)
  IN  [j \in 1..Max2(0, to - from) |-> from + j]

\* _assign_chunk(data) with the counts of largest_remainder_method_unit.
assign_chunk_unit(n, w) ==
  LET c   == largest_remainder_method_unit(n, w)
      idx == [k \in Groups |-> SumTo(c, k - 1)]
  IN  [k \in Groups |-> PySlice(idx[k], idx[k] + c[k], n)]

NegInit ==
  /\ weights \in NegWeightMaps
  /\ pc = "idle"
  /\ error = "none"
  /\ api = "none" /\ mode = "none" /\ total = 0 /\ block_size = 1
  /\ counts = ZeroCounts /\ total_counts = ZeroCounts
  /\ result = EmptyResult
  /\ data_idx = 0 /\ key = 1 /\ can_distribute = FALSE
  /\ FreshInstance
  /\ NoCommand /\ NoWait /\ NoFlink

\* assign(data, mode='chunk') on an allocator of NegInit.
NegAssignChunk ==
  \E n \in 1..MaxLen :
    /\ Enter("assign", "chunk", n, 1)
    /\ Returns(assign_chunk_unit(n, weights))

NegNext ==
  \/ AssignEmpty
  \/ NegAssignChunk
  \/ AssignBadMode
  \/ DistributeEmpty
  \/ Return

\* ------------------------------------------- exec_command (run_shell_example)
\* bounds of the runs of exec_command
MaxLines == 2
MaxTimeout == 1

\* A line of output, by what predicate_to_kill says of it.
Lines == {"hit", "miss"}

\* Lines 76-101: Popen, the reader thread is started, start_time is taken.
ExecStart ==
  /\ main = "idle"
  /\ \E p \in BOOLEAN, m \in 0..MaxTimeout, w \in {0, 1} :
       /\ predicate_to_kill' = p
       /\ max_exec_timeout' = m
       /\ wait_before_kill' = w
  /\ proc' = "running" /\ thread' = "readline" /\ main' = "poll"
  /\ UNCHANGED <<stdout, output_lines, kill_signal, elapsed, signals, branch,
                 ret>>
  /\ UNCHANGED <<allocVars, waitVars, flinkVars>>

\* The command prints a line.
ProcWrite ==
  /\ proc = "running"
  /\ Len(stdout) + Len(output_lines) < MaxLines
  /\ \E line \in Lines : stdout' = Append(stdout, line)
  /\ UNCHANGED <<proc, output_lines, kill_signal, thread, main, elapsed,
                 predicate_to_kill, max_exec_timeout, wait_before_kill,
                 signals, branch, ret>>
  /\ UNCHANGED <<allocVars, waitVars, flinkVars>>

\* The command ends: by itself, or on a SIGTERM it has received.
ProcExit ==
  /\ proc = "running"
  /\ proc' = IF signals = <<>> THEN "exited" ELSE "terminated"
  /\ UNCHANGED <<stdout, output_lines, kill_signal, thread, main, elapsed,
                 predicate_to_kill, max_exec_timeout, wait_before_kill,
                 signals, branch, ret>>
  /\ UNCHANGED <<allocVars, waitVars, flinkVars>>

\* ReaderRead with the test `predicate_to_kill and` of line 94 left out.
ReaderRead_unguarded ==
  /\ thread = "readline" /\ stdout # <<>>
  /\ output_lines' = Append(output_lines, Head(stdout))
  /\ stdout' = Tail(stdout)
  /\ thread' = "set"
  /\ UNCHANGED <<proc, kill_signal, main, elapsed, predicate_to_kill,
                 max_exec_timeout, wait_before_kill, signals, branch, ret>>
  /\ UNCHANGED <<allocVars, waitVars, flinkVars>>

\* Lines 91-94: readline returns a line, it is appended to output_lines and
\* the predicate, if there is one, is asked.
ReaderRead ==
  /\ thread = "readline" /\ stdout # <<>>
  /\ output_lines' = Append(output_lines, Head(stdout))
  /\ stdout' = Tail(stdout)
  /\ thread' = IF predicate_to_kill /\ Head(stdout) = "hit" THEN "set"
               ELSE "readline"
  /\ UNCHANGED <<proc, kill_signal, main, elapsed, predicate_to_kill,
                 max_exec_timeout, wait_before_kill, signals, branch, ret>>
  /\ UNCHANGED <<allocVars, waitVars, flinkVars>>

\* Line 95: kill_signal.set().
ReaderSet ==
  /\ thread = "set"
  /\ kill_signal' = TRUE
  /\ thread' = "readline"
  /\ UNCHANGED <<proc, stdout, output_lines, main, elapsed, predicate_to_kill,
                 max_exec_timeout, wait_before_kill, signals, branch, ret>>
  /\ UNCHANGED <<allocVars, waitVars, flinkVars>>

\* Line 91: readline returns '' (the command has ended, nothing is left to
\* read) and the thread ends.
ReaderEof ==
  /\ thread = "readline" /\ stdout = <<>> /\ proc \notin {"none", "running"}
  /\ thread' = "ended"
  /\ UNCHANGED <<proc, stdout, output_lines, kill_signal, main, elapsed,
                 predicate_to_kill, max_exec_timeout, wait_before_kill,
                 signals, branch, ret>>
  /\ UNCHANGED <<allocVars, waitVars, flinkVars>>

\* A step of the caller's thread from position `at` to position `to`, leaving
\* the polling loop by branch b.
MainStep(at, to, b) ==
  /\ main = at /\ main' = to /\ branch' = b
  /\ UNCHANGED <<allocVars, waitVars, flinkVars>>
  /\ UNCHANGED <<stdout, output_lines, kill_signal, thread, predicate_to_kill,
                 max_exec_timeout, wait_before_kill, ret>>

\* Poll without the `break` of line 105: the loop goes on after it has seen
\* the command finished.
Poll_nobreak ==
  /\ IF proc # "running" THEN MainStep("poll", "check_kill", "finished")
     ELSE MainStep("poll", "check_kill", branch)
  /\ UNCHANGED <<proc, elapsed, signals>>

\* Lines 103-105: `if proc.poll() is not None: break`.
Poll ==
  /\ IF proc # "running" THEN MainStep("poll", "join", "finished")
     ELSE MainStep("poll", "check_kill", branch)
  /\ UNCHANGED <<proc, elapsed, signals>>

\* Lines 107-109: `if kill_signal.is_set()`.
CheckKill ==
  /\ IF kill_signal
     THEN MainStep("check_kill",
                   IF wait_before_kill > 0 THEN "wait_before_kill"
                   ELSE "sigterm",
                   "predicate")
     ELSE MainStep("check_kill", "check_timeout", branch)
  /\ UNCHANGED <<proc, elapsed, signals>>

\* Line 110: time.sleep(wait_before_kill).
WaitBeforeKill ==
  /\ MainStep("wait_before_kill", "sigterm", branch)
  /\ UNCHANGED <<proc, elapsed, signals>>

\* Lines 114-116: `if time.time() - start_time > max_exec_timeout`.
CheckTimeout ==
  /\ IF elapsed > max_exec_timeout
     THEN MainStep("check_timeout", "sigterm", "timeout")
     ELSE MainStep("check_timeout", "sleep", branch)
  /\ UNCHANGED <<proc, elapsed, signals>>

\* Line 119: time.sleep(interval).
Sleep ==
  /\ MainStep("sleep", "poll", branch)
  /\ elapsed' = elapsed + 1
  /\ UNCHANGED <<proc, signals>>

\* terminate_proc_gracefully, lines 29-42: SIGTERM to the process group (the
\* command is not reaped before poll or wait, so the signal can be sent also
\* when it has ended).
SigTerm ==
  /\ MainStep("sigterm", "wait", branch)
  /\ signals' = Append(signals, "SIGTERM")
  /\ UNCHANGED <<proc, elapsed>>

\* terminate_proc_gracefully, lines 44-48: proc.wait(timeout) returns when the
\* command has ended, and raises TimeoutExpired while it has not.
TermWait ==
  /\ IF proc # "running" THEN MainStep("wait", "join", branch)
     ELSE MainStep("wait", "sigkill", branch)
  /\ UNCHANGED <<proc, elapsed, signals>>

\* terminate_proc_gracefully, lines 49-56: SIGKILL to the process group.
SigKill ==
  /\ MainStep("sigkill", "kill_wait", branch)
  /\ signals' = Append(signals, "SIGKILL")
  /\ UNCHANGED <<proc, elapsed>>

\* The command is ended by the SIGKILL it has received.
ProcKilled ==
  /\ proc = "running"
  /\ \E i \in 1..Len(signals) : signals[i] = "SIGKILL"
  /\ proc' = "killed"
  /\ UNCHANGED <<stdout, output_lines, kill_signal, thread, main, elapsed,
                 predicate_to_kill, max_exec_timeout, wait_before_kill,
                 signals, branch, ret>>
  /\ UNCHANGED <<allocVars, waitVars, flinkVars>>

\* terminate_proc_gracefully, lines 57-59: proc.wait() blocks until the
\* command has ended; then the function returns.
KillWait ==
  /\ proc # "running"
  /\ MainStep("kill_wait", "join", branch)
  /\ UNCHANGED <<proc, elapsed, signals>>

\* Line 122: thread.join(timeout=5) returns when the reader has ended, or
\* after 5 seconds with the reader still alive.
Join ==
  /\ MainStep("join", "return", branch)
  /\ UNCHANGED <<proc, elapsed, signals>>

\* Lines 124-129: the dict is built from proc.poll() and kill_signal.is_set().
ExecReturn ==
  /\ main = "return" /\ main' = "returned"
  /\ ret' = [returncode |-> proc, success |-> kill_signal]
  /\ UNCHANGED <<proc, stdout, output_lines, kill_signal, thread, elapsed,
                 predicate_to_kill, max_exec_timeout, wait_before_kill,
                 signals, branch>>
  /\ UNCHANGED <<allocVars, waitVars, flinkVars>>

ExecNext ==
  \/ ExecStart
  \/ ProcWrite
  \/ ProcExit
  \/ ReaderRead
  \/ ReaderSet
  \/ ReaderEof
  \/ Poll
  \/ CheckKill
  \/ WaitBeforeKill
  \/ CheckTimeout
  \/ Sleep
  \/ SigTerm
  \/ TermWait
  \/ SigKill
  \/ ProcKilled
  \/ KillWait
  \/ Join
  \/ ExecReturn

\* ------------------------- wait_driver_and_get_name (airflow-spark-submit)
\* submit_wait_timeout and pod_wait_timeout, in check intervals
MaxSubmitWait == 3
MaxPodWait == 3

\* NAMESPACE
Namespace == "default"

\* What dag_run.get_task_instance("spark_submit") shows: no TaskInstance yet
\* ("none"), or its state.
TaskStates == {"none", "queued", "running", "success", "failed"}

\* Names get_driver_pod_names() may end with (its last element is used).
PodNames == {"driver-1", "driver-2"}

\* Values of get_pod_phase(pod_name).
Phases == {"Pending", "Running", "Succeeded", "Failed", "Unknown", "NotFound"}

\* Values of get_kubectl_pod_status(pod_name).
Statuses == {"Pending", "ContainerCreating", "Running", "CrashLoopBackOff",
             "Terminating", "Error"}

\* ti.xcom_push(key=k, value=v)
XcomPush(k, v) == xcom' = {e \in xcom : e[1] # k} \cup {<<k, v>>}

\* `return v` at line `line`.
WaitReturns(v, line) ==
  /\ wait_pc' = "returned" /\ wait_ret' = v /\ return_line' = line

\* Nothing is returned by this step.
NoReturn == UNCHANGED <<wait_ret, return_line>>

\* Lines 144-150.
WaitStart ==
  /\ wait_pc = "idle"
  /\ wait_pc' = "submit_loop"
  /\ XcomPush("driver_namespace", Namespace)
  /\ NoReturn
  /\ UNCHANGED <<seen_start, submit_waited, pod_waited>>
  /\ UNCHANGED <<allocVars, execVars, flinkVars>>

\* One pass of the loop of lines 151-172, its test being true.
SubmitPoll ==
  /\ wait_pc = "submit_loop" /\ submit_waited < MaxSubmitWait
  /\ \E state \in TaskStates :
       IF state \in {"running", "success"}
       THEN /\ seen_start' = TRUE /\ wait_pc' = "pod_loop"
            /\ NoReturn
            /\ UNCHANGED <<xcom, submit_waited>>
       ELSE IF state = "failed"
       THEN /\ XcomPush("driver_pod_name", "None")
            /\ WaitReturns("None", 169)
            /\ UNCHANGED <<seen_start, submit_waited>>
       ELSE /\ submit_waited' = submit_waited + 1
            /\ NoReturn
            /\ UNCHANGED <<wait_pc, xcom, seen_start>>
  /\ UNCHANGED pod_waited
  /\ UNCHANGED <<allocVars, execVars, flinkVars>>

\* Lines 174-176: the loop has ended by its test, seen_start is False.
SubmitTimeout ==
  /\ wait_pc = "submit_loop" /\ submit_waited >= MaxSubmitWait
  /\ ~seen_start
  /\ WaitReturns("None", 176)
  /\ UNCHANGED <<xcom, seen_start, submit_waited, pod_waited>>
  /\ UNCHANGED <<allocVars, execVars, flinkVars>>

\* One pass of the loop of lines 180-209, its test being true: no driver pod
\* yet, or the phase and (for Running and Pending) the status of the latest.
PodPoll ==
  /\ wait_pc = "pod_loop" /\ pod_waited < MaxPodWait
  /\ \/ /\ pod_waited' = pod_waited + 1
        /\ NoReturn
        /\ UNCHANGED <<wait_pc, xcom>>
     \/ \E latest_pod_name \in PodNames, phase \in Phases, status \in Statuses :
          IF phase \in {"Succeeded", "Failed"}
          THEN /\ XcomPush("driver_pod_name", latest_pod_name)
               /\ WaitReturns(phase, 189)
               /\ UNCHANGED pod_waited
          ELSE IF phase = "Running"
          THEN IF status = "Running"
               THEN /\ XcomPush("driver_pod_name", latest_pod_name)
                    /\ WaitReturns(status, 194)
                    /\ UNCHANGED pod_waited
               ELSE /\ WaitReturns(status, 196)
                    /\ UNCHANGED <<xcom, pod_waited>>
          ELSE IF phase = "Pending"
          THEN IF status \in {"Pending", "ContainerCreating"}
               THEN /\ pod_waited' = pod_waited + 1
                    /\ NoReturn
                    /\ UNCHANGED <<wait_pc, xcom>>
               ELSE /\ WaitReturns(status, 204)
                    /\ UNCHANGED <<xcom, pod_waited>>
          ELSE /\ WaitReturns(phase, 208)
               /\ UNCHANGED <<xcom, pod_waited>>
  /\ UNCHANGED <<seen_start, submit_waited>>
  /\ UNCHANGED <<allocVars, execVars, flinkVars>>

\* Lines 211-213: the pod loop has ended by its test.
PodTimeout ==
  /\ wait_pc = "pod_loop" /\ pod_waited >= MaxPodWait
  /\ WaitReturns("None", 213)
  /\ UNCHANGED <<xcom, seen_start, submit_waited, pod_waited>>
  /\ UNCHANGED <<allocVars, execVars, flinkVars>>

WaitNext ==
  \/ WaitStart
  \/ SubmitPoll
  \/ SubmitTimeout
  \/ PodPoll
  \/ PodTimeout

\* ----------------------------- FlinkSQLGatewayClient.wait_until_finished
\* The number of polls followed.
MaxPolls == 3

\* What status_resp.json().get("status") can be: the two statuses the code
\* names, other statuses of an operation, and None (no such key).
OperationStatuses == {"FINISHED", "ERROR", "RUNNING", "CANCELED", "None"}

\* Line 24: the call is entered.
FlinkStart ==
  /\ flink_pc = "idle"
  /\ flink_pc' = "poll"
  /\ UNCHANGED <<flink_status, reported, flink_error>>
  /\ UNCHANGED <<allocVars, execVars, waitVars>>

\* Lines 26-29: the GET of the operation and `status = ....get("status")`.
FlinkPoll ==
  /\ flink_pc = "poll" /\ Len(reported) < MaxPolls
  /\ \E s \in OperationStatuses :
       /\ flink_status' = s
       /\ reported' = Append(reported, s)
  /\ flink_pc' = "check"
  /\ UNCHANGED flink_error
  /\ UNCHANGED <<allocVars, execVars, waitVars>>

\* FlinkCheck without the elif of lines 32-33: ERROR is polled again.
FlinkCheck_noraise ==
  /\ flink_pc = "check"
  /\ flink_pc' = IF flink_status = "FINISHED" THEN "returned" ELSE "sleep"
  /\ UNCHANGED <<flink_status, reported, flink_error>>
  /\ UNCHANGED <<allocVars, execVars, waitVars>>

\* Lines 30-33: return on FINISHED, raise RuntimeError on ERROR.
FlinkCheck ==
  /\ flink_pc = "check"
  /\ IF flink_status = "FINISHED"
     THEN flink_pc' = "returned" /\ flink_error' = flink_error
     ELSE IF flink_status = "ERROR"
     THEN flink_pc' = "raised" /\ flink_error' = "RuntimeError"
     ELSE flink_pc' = "sleep" /\ flink_error' = flink_error
  /\ UNCHANGED <<flink_status, reported>>
  /\ UNCHANGED <<allocVars, execVars, waitVars>>

\* Line 34: time.sleep(1), and back to the head of `while True`.
FlinkSleep ==
  /\ flink_pc = "sleep"
  /\ flink_pc' = "poll"
  /\ UNCHANGED <<flink_status, reported, flink_error>>
  /\ UNCHANGED <<allocVars, execVars, waitVars>>

FlinkNext ==
  \/ FlinkStart
  \/ FlinkPoll
  \/ FlinkCheck
  \/ FlinkSleep

\* ------------------------------------------------------- specifications
\* No allocator call is in progress (the other programs build no allocator).
NoAllocator ==
  /\ weights = ZeroCounts
  /\ pc = "idle"
  /\ error = "none"
  /\ api = "none" /\ mode = "none" /\ total = 0 /\ block_size = 1
  /\ counts = ZeroCounts /\ total_counts = ZeroCounts
  /\ result = EmptyResult
  /\ data_idx = 0 /\ key = 1 /\ can_distribute = FALSE
  /\ FreshInstance

\* The allocator: one WeightedGroupAssigner and calls of distribute_by_weights
\* with its weights.
Spec == Init /\ [][Next]_vars

\* The steps of a call that is inside one of its loops.
Running == BlockVisit \/ GcdVisit \/ GcdLeft

\* The interpreter goes on executing a call that has been entered: a loop
\* whose next step is possible takes it.  Nothing forces a caller to call.
FairSpec == Spec /\ WF_vars(Running)

\* The allocator built over a weight map with a negative weight.
NegSpec == NegInit /\ [][NegNext]_vars

\* One WeightedGroupAssigner, called again and again by a caller that also
\* writes to its own dict.
InstanceSpec == InstanceInit /\ [][InstanceNext]_vars

\* distribute_by_weights(.., 'proportional') on positive weights, to compare
\* with _largest_remainder_method.
QuotaSpec == QuotaInit /\ [][QuotaNext]_vars

\* The calls of the module's `__main__` block.
ExampleSpec == ExampleInit /\ [][ExampleNext]_vars

\* One run of exec_command.
ExecInit == NoAllocator /\ NoCommand /\ NoWait /\ NoFlink

ExecSpec == ExecInit /\ [][ExecNext]_vars

\* One run of the task wait_driver.
WaitInit == NoAllocator /\ NoCommand /\ NoWait /\ NoFlink

WaitSpec == WaitInit /\ [][WaitNext]_vars

\* One call of wait_until_finished.
FlinkInit == NoAllocator /\ NoCommand /\ NoWait /\ NoFlink

\* The interpreter goes on executing the call: the test of the status and the
\* sleep are taken when they are the next statement.
FlinkSpec == FlinkInit /\ [][FlinkNext]_vars
               /\ WF_vars(FlinkCheck) /\ WF_vars(FlinkSleep)

\* ================================================================ claims
\* The call in progress (or just ended) is a call the interface defines: a
\* mode of assign with a block_size >= 1, or a strategy of
\* distribute_by_weights.
ValidCall ==
  \/ api = "assign" /\ mode \in AssignModes
     /\ (mode = "block_interleaved" => block_size >= 1)
  \/ api = "distribute_by_weights" /\ mode \in Strategies

\* len(result[k]) for every key.
Lengths == [k \in Groups |-> Len(result[k])]

\* Number of places of the result that hold item i.
Places(i) ==
  Sum([k \in Groups |->
         Cardinality({j \in 1..Len(result[k]) : result[k][j] = i})])

\* C1, as stated: for every weight map with non-negative integer weights and
\* every total >= 0 the counts of _largest_remainder_method(total, weights)
\* sum to total.
C1_SumIsTotal_AllMaps ==
  api = "assign" => Sum(largest_remainder_method(total, weights)) = total

\* C1, amended: the counts sum to total for every weight map with at least one
\* positive weight; for the all-zero map (line 41) every count is 0.
C1_SumIsTotal ==
  api = "assign" =>
    LET c == largest_remainder_method(total, weights)
    IN  /\ Sum(weights) > 0 => Sum(c) = total
        /\ Sum(weights) = 0 => c = ZeroCounts
        /\ pc \in {"block_interleaved", "gcd_interleaved", "gcd_left"}
             => counts = c

\* C1 witness: quotas computed for a non-empty list where the floors fall
\* short of the total by two units.
C1_Witness ==
  /\ pc = "block_interleaved" /\ Sum(weights) > 0
  /\ Sum(counts) = total
  /\ Sum([k \in Groups |-> (weights[k] * total) \div Sum(weights)]) = total - 2

\* C2: for every policy, every non-empty input and every weight map with a
\* positive weight, the call returns and every input position is in exactly
\* one place of the result, which holds nothing else.
C2_Partition ==
  (ValidCall /\ total >= 1 /\ Sum(weights) > 0) =>
    /\ pc # "raised"
    /\ pc = "done" =>
         /\ \A i \in 1..total : Places(i) = 1
         /\ \A k \in Groups : \A j \in 1..Len(result[k]) :
              result[k][j] \in 1..total

\* C2 witness: gcd_interleaved has returned after its leftover phase gave an
\* item to a group.
C2_Witness ==
  /\ pc = "done" /\ mode = "gcd_interleaved" /\ total = MaxLen
  /\ \E k \in Groups : Len(result[k]) > total_counts[k]
  /\ \A i \in 1..total : Places(i) = 1

\* C3: in the modes chunk, block_interleaved (block_size >= 1) and
\* gcd_interleaved each group's output has the length of its
\* largest-remainder quota for len(data), and the lengths sum to len(data).
C3_ExactQuota ==
  (pc = "done" /\ api = "assign" /\ ValidCall /\ Sum(weights) > 0) =>
    /\ Lengths = largest_remainder_method(total, weights)
    /\ Sum(Lengths) = total

\* C3 witness: block_interleaved with block_size 2 has returned a group of
\* three items or more, filled over several visits.
C3_Witness ==
  /\ pc = "done" /\ mode = "block_interleaved" /\ block_size = 2
  /\ \E k \in Groups : Len(result[k]) >= 3 /\ Len(result[k]) = counts[k]
  /\ \E k \in Groups : Len(result[k]) = 1

\* The largest-remainder quotas in exact arithmetic: floors of
\* weight_k * total / total_weight, and one more for the `deficit` groups
\* ranked first by descending remainder, the earlier position first among
\* equal remainders.
ExactQuotas(n, w) ==
  LET s       == Sum(w)
      fl      == [k \in Groups |-> (w[k] * n) \div s]
      rm      == [k \in Groups |-> (w[k] * n) % s]
      deficit == n - Sum(fl)
      rank    == [k \in Groups |->
                    Cardinality({j \in Groups :
                       rm[j] > rm[k] \/ (rm[j] = rm[k] /\ j < k)})]
  IN  [k \in Groups |-> fl[k] + (IF rank[k] < deficit THEN 1 ELSE 0)]

\* C4: the quotas are the floors plus one for exactly the top `deficit`
\* groups by descending fractional remainder, equal remainders ranked by
\* position in the weight map.
C4_PositionalTieBreak ==
  (api = "assign" /\ Sum(weights) > 0) =>
    largest_remainder_method(total, weights) = ExactQuotas(total, weights)

\* C5: every quota is within less than 1 of the exact share:
\* |quota_k * total_weight - total * weight_k| < total_weight.
C5_Proportional ==
  (api = "assign" /\ Sum(weights) > 0) =>
    LET c == largest_remainder_method(total, weights)
        s == Sum(weights)
    IN  \A k \in Groups :
          /\ c[k] * s - total * weights[k] < s
          /\ total * weights[k] - c[k] * s < s

\* C5 witness: quotas in use where one group is above its exact share and
\* another below it.
C5_Witness ==
  /\ pc = "gcd_interleaved" /\ Sum(weights) > 0
  /\ \E k \in Groups : counts[k] * Sum(weights) > total * weights[k]
  /\ \E k \in Groups : counts[k] * Sum(weights) < total * weights[k]
  /\ \A k \in Groups : counts[k] * Sum(weights) - total * weights[k] < Sum(weights)

\* C6: under every policy each group's list is in strictly increasing input
\* order, at every point of the call.
C6_OrderPreserved ==
  \A k \in Groups : \A j \in 1..(Len(result[k]) - 1) :
    result[k][j] < result[k][j + 1]

\* C6 witness: round_robin has returned a group whose items are not adjacent
\* in the input.
C6_Witness ==
  /\ pc = "done" /\ mode = "round_robin"
  /\ \E k \in Groups : \E j \in 1..(Len(result[k]) - 1) :
       result[k][j] + 1 < result[k][j + 1]
  /\ \E k \in Groups : Len(result[k]) >= 3

\* C7: a group of weight 0 beside a group of positive weight gets an empty
\* list, for every input and every policy.
C7_ZeroWeightEmpty ==
  (pc = "done" /\ ValidCall /\ Sum(weights) > 0) =>
    \A k \in Groups : weights[k] = 0 => result[k] = <<>>

\* result as one group per input position (every position being placed once).
GroupOfIndex ==
  [i \in 1..total |->
     CHOOSE k \in Groups : \E j \in 1..Len(result[k]) : result[k][j] = i]

\* Some group is still below its quota: the sweep of block_interleaved can
\* hand out another item.
SweepCanGive == \E k \in Groups : total_counts[k] < counts[k]

RECURSIVE StrictRoundRobin(_, _, _)
\* Strict round robin from group k on, cnt[g] items given to g so far: sweep
\* the groups in weight-map order, a visit gives the next item to the group
\* if its count is below its quota and skips it otherwise, until every quota
\* is used up.  The result is the sequence of groups, one per item.
StrictRoundRobin(quota, cnt, k) ==
  IF \A g \in Groups : cnt[g] >= quota[g] THEN <<>>
  ELSE IF cnt[k] < quota[k]
       THEN <<k>> \o StrictRoundRobin(
                       quota,
                       [g \in Groups |-> IF g = k THEN cnt[g] + 1 ELSE cnt[g]],
                       (k % N) + 1)
       ELSE StrictRoundRobin(quota, cnt, (k % N) + 1)

\* C8: block_interleaved with block_size = 1 yields, for every input and
\* weight map, the group-per-index sequence of strict round robin: a call
\* that has returned holds it, and a call in its loop has followed it so far
\* and can hand out the next item.
C8_BlockOneIsRoundRobin ==
  (api = "assign" /\ mode = "block_interleaved" /\ block_size = 1
   /\ total >= 1) =>
    LET labels == StrictRoundRobin(largest_remainder_method(total, weights),
                                   ZeroCounts, 1)
    IN  /\ \A k \in Groups : \A j \in 1..Len(result[k]) :
             /\ result[k][j] <= Len(labels)
             /\ labels[result[k][j]] = k
        /\ pc = "done" =>
             /\ \A i \in 1..total : Places(i) = 1
             /\ GroupOfIndex = labels
        /\ (pc = "block_interleaved" /\ data_idx < total) => SweepCanGive

\* C9: block_interleaved with block_size >= len(data) returns, for every
\* input and weight map, the mapping of mode chunk: a call that has returned
\* holds it, and a call in its loop can hand out the next item.
C9_BlockAtLeastLenIsChunk ==
  (api = "assign" /\ mode = "block_interleaved" /\ block_size >= total) =>
    /\ pc = "done" => result = assign_chunk(total, weights)
    /\ (pc = "block_interleaved" /\ data_idx < total) => SweepCanGive

\* The two-phase layout: whole pattern rounds (group k takes weight_k / gcd
\* items, in weight-map order) as long as a whole round fits within every
\* group's quota, then what is left of every quota as one contiguous run per
\* group, in weight-map order.
gcd_two_phase(n, w) ==
  LET q      == largest_remainder_method(n, w)
      p      == round_counts(w)
      rounds == CHOOSE r \in 0..n :
                  /\ \A k \in Groups : r * p[k] <= q[k]
                  /\ \E k \in Groups : (r + 1) * p[k] > q[k]
      open   == [k \in Groups |-> q[k] - rounds * p[k]]
  IN  [k \in Groups |->
         [i \in 1..(rounds * p[k]) |->
            ((i - 1) \div p[k]) * Sum(p) + SumTo(p, k - 1)
            + ((i - 1) % p[k]) + 1]
         \o Slice(rounds * Sum(p) + SumTo(open, k - 1),
                  rounds * Sum(p) + SumTo(open, k - 1) + open[k], n)]

\* C10: gcd_interleaved is two-phase: pattern rounds only while a whole round
\* fits within every group's quota, no pattern item for any group from the
\* first round that would not fit, the rest contiguous by remaining deficit.
C10_GcdTwoPhase ==
  (pc = "done" /\ mode = "gcd_interleaved" /\ total >= 1) =>
    result = gcd_two_phase(total, weights)

\* C11: distribute_by_weights(data, weights, 'sequential_fill') places every
\* input position in the group the chunk layout of the largest-remainder
\* quotas places it in.
C11_SequentialFillIsChunk ==
  (pc = "done" /\ api = "distribute_by_weights" /\ mode = "sequential_fill") =>
    result = assign_chunk(total, weights)

C13_ContiguousLayout ==
  (pc = "done" /\ api = "assign" /\ mode = "chunk") =>
    LET quota == largest_remainder_method(total, weights)
    IN  \A k \in Groups :
          /\ Len(result[k]) = quota[k]
          /\ \A j \in 1..Len(result[k]) :
               result[k][j] = SumTo(quota, k - 1) + j

\* A chunk call over the longest input in which every group has a quota.
C13_Witness ==
  /\ pc = "done" /\ api = "assign" /\ mode = "chunk" /\ total = MaxLen
  /\ \A k \in Groups : Len(result[k]) >= 1
  /\ Len(result[2]) >= 2

\* The call in progress is inside a sweep loop of assign.
InLoop == pc \in {"block_interleaved", "gcd_interleaved", "gcd_left"}

\* C14: with at least one positive weight and block_size >= 1, a call of
\* assign that has entered the sweep loop of block_interleaved or of
\* gcd_interleaved returns.
C14_Terminates ==
  (InLoop /\ Sum(weights) > 0 /\ block_size >= 1) ~> (pc = "done")

\* A block_interleaved call that has returned after the most sweeps the
\* bounds allow: one item per visit over the longest input.
C14_Witness ==
  /\ pc = "done" /\ api = "assign" /\ mode = "block_interleaved"
  /\ block_size = 1 /\ total = MaxLen /\ Sum(weights) > 0
  /\ \E k \in Groups : Len(result[k]) = MaxLen - 1

\* C15: when every weight is 0, a call of any policy, on any input, returns
\* normally with every group present and empty: it does not raise, it holds
\* the all-empty result when it has returned, and it does not stay in a loop
\* that cannot advance.
C15_AllZeroGivesEmpty ==
  (ValidCall /\ Sum(weights) = 0 /\ pc # "idle") =>
    /\ pc # "raised"
    /\ pc = "done" => result = EmptyResult
    /\ (pc = "block_interleaved" /\ data_idx < total) =>
         \E k \in Groups : counts[k] > total_counts[k]

\* C16: a call with a policy name outside the defined set ends with an error
\* and returns no allocation, whatever the input list is, for assign and for
\* distribute_by_weights.
C16_BadNameRaises ==
  (mode = BadName /\ pc # "idle") => pc = "raised"

\* C17: assign(data, mode='block_interleaved', block_size=b) with b <= 0 ends
\* with an error at once: it holds no allocation and is in no loop.
C17_BadBlockSizeRaises ==
  (api = "assign" /\ mode = "block_interleaved" /\ block_size <= 0
   /\ pc # "idle") => pc = "raised"

\* C20: with a weight map that holds a negative weight, a call ends with an
\* error before any computation: it never returns a result.
C20_NegativeWeightRaises ==
  ((\E k \in Groups : weights[k] < 0) /\ pc # "idle") => pc = "raised"

\* C18, as stated: exec_command returns success == True only when the run
\* left the polling loop through the predicate branch; a run ended by
\* max_exec_timeout or by the command finishing returns success == False.
C18_SuccessOnlyByPredicate ==
  (main = "returned" /\ ret.success) => branch = "predicate"

\* C18, amended: success is what kill_signal holds at the return.  It is True
\* only if a predicate was given and the reader has read a line the predicate
\* accepts, it is True for every run that left the loop by the predicate
\* branch, and it is False on every path when no predicate was given.
C18_SuccessIsKillSignal ==
  main = "returned" =>
    /\ ret.success =>
         /\ predicate_to_kill
         /\ \E i \in 1..Len(output_lines) : output_lines[i] = "hit"
    /\ branch = "predicate" => ret.success
    /\ ~predicate_to_kill => ~ret.success
    /\ ret.success => kill_signal

\* A run whose polling loop saw the command finished, and whose reader set
\* kill_signal on a line read while the caller was in join.
C18_Witness ==
  /\ main = "returned" /\ branch = "finished" /\ ret.success
  /\ ret.returncode = "exited" /\ signals = <<>>

\* C19: whenever wait_driver_and_get_name has returned, the XCom key
\* 'driver_pod_name' has been pushed (with the pod name or None).
C19_PodNamePushed ==
  wait_pc = "returned" => \E e \in xcom : e[1] = "driver_pod_name"


\* The call in progress has the arguments of the call kept in `earlier`.
SameCall ==
  /\ earlier.pc # "none"
  /\ mode = earlier.mode /\ total = earlier.total
  /\ block_size = earlier.block_size

\* C21: on one WeightedGroupAssigner, a call of assign ends as an earlier call
\* with the same data, mode and block_size ended (same result, or same
\* exception), whatever calls were made in between and whatever the caller
\* has written to its own weights dict since; no step changes self.weights,
\* and the input list is the same from the entry of a call to its end.
C21_CallIndependence ==
  /\ [](pc \in {"done", "raised"} /\ SameCall
          => pc = earlier.pc /\ error = earlier.error
             /\ result = earlier.result)
  /\ [][weights' = weights]_vars
  /\ [][pc # "idle" /\ pc' # "idle" => data' = data]_vars

\* A block_interleaved call on MaxLen items has returned for the second
\* time, after the caller has overwritten its dict.
C21_Witness ==
  /\ pc = "done" /\ SameCall
  /\ mode = "block_interleaved" /\ total = MaxLen /\ block_size > 1
  /\ caller_weights # weights
  /\ data = Slice(0, MaxLen, MaxLen)


\* The layout C22 describes for 'proportional' on n items: weight *
\* full_round consecutive items per group in weight order, then the tail as
\* one run per group in weight order, sized by the largest-remainder share
\* of the tail.
proportional_runs(n, w) ==
  LET full_round == n \div Sum(w)
      remainder  == n % Sum(w)
      take       == [k \in Groups |-> w[k] * full_round]
      index      == Sum(take)
      share      == largest_remainder_method(remainder, w)
  IN  [k \in Groups |->
         Slice(SumTo(take, k - 1), SumTo(take, k), n)
         \o Slice(index + SumTo(share, k - 1), index + SumTo(share, k), n)]

\* C22: distribute_by_weights with strategy 'proportional' returns the base
\* rounds followed by one contiguous run of the tail per group, in weight
\* order (for data 1..14 and weights {A:5,B:3,C:1}: A [1..5, 10, 11, 12],
\* B [6, 7, 8, 13, 14], C [9], which is proportional_runs(14, <<5, 3, 1>>)).
C22_ProportionalRuns ==
  (/\ pc = "done" /\ api = "distribute_by_weights"
   /\ mode = "proportional" /\ total > 0)
  => result = proportional_runs(total, weights)


\* C23: on the example (data 1..20, weights {A:2,B:3,C:5}),
\* assign(mode='block_interleaved', block_size=2) returns A [1, 8, 15, 20],
\* B [2, 3, 9, 10, 16, 17], C [4, 5, 6, 7, 11, 12, 13, 14, 18, 19].
C23_BlockExample ==
  (pc = "done" /\ mode = "block_interleaved" /\ block_size = 2)
  => result = << <<1, 8, 15, 20>>, <<2, 3, 9, 10, 16, 17>>,
                 <<4, 5, 6, 7, 11, 12, 13, 14, 18, 19>> >>

\* C24: on the example (data 1..20, weights {A:2,B:3,C:5}),
\* assign(mode='gcd_interleaved') returns A [1, 4, 7, 10],
\* B [2, 5, 8, 11, 14, 17], C [3, 6, 9, 12, 13, 15, 16, 18, 19, 20].
C24_GcdExample ==
  (pc = "done" /\ mode = "gcd_interleaved")
  => result = << <<1, 4, 7, 10>>, <<2, 5, 8, 11, 14, 17>>,
                 <<3, 6, 9, 12, 13, 15, 16, 18, 19, 20>> >>


\* C25: for positive integer weights, the lengths of the lists that
\* distribute_by_weights(data, weights, 'proportional') returns are the counts
\* of _largest_remainder_method(len(data), weights), ties included.
C25_QuotasAgree ==
  (/\ pc = "done" /\ api = "distribute_by_weights" /\ mode = "proportional"
   /\ \A k \in Groups : weights[k] > 0)
  => Lengths = largest_remainder_method(total, weights)


\* C26: in one run of exec_command, terminate_proc_gracefully is entered at
\* most once (it sends one SIGTERM per call) and never once the polling loop
\* has seen the command finished; SIGKILL is sent only after SIGTERM, and
\* only when the wait that followed SIGTERM ended with the command still
\* running; and terminate_proc_gracefully returns only when the command has
\* ended.
C26_EscalationOrder ==
  /\ [](signals \in {<<>>, <<"SIGTERM">>, <<"SIGTERM", "SIGKILL">>})
  /\ [](branch = "finished" => signals = <<>>)
  /\ [][branch = "finished" => main' \in {"join", "return", "returned"}]_vars
  /\ [][main' = "sigkill" /\ main # "sigkill"
         => main = "wait" /\ proc = "running" /\ signals = <<"SIGTERM">>]_vars
  /\ [][signals' # signals /\ signals'[Len(signals')] = "SIGKILL"
         => main = "sigkill"]_vars
  /\ [][main' = "join" /\ main \in {"wait", "kill_wait"}
         => proc' # "running" /\ signals # <<>>]_vars

\* A run that went up to SIGKILL: the command ignored SIGTERM, was killed,
\* and terminate_proc_gracefully has returned.
C26_Witness ==
  /\ main = "join" /\ signals = <<"SIGTERM", "SIGKILL">> /\ proc = "killed"
  /\ branch = "timeout"


\* The statuses that end wait_until_finished.
Final(s) == s \in {"FINISHED", "ERROR"}

\* C27: wait_until_finished returns only when the last poll reported
\* FINISHED and raises RuntimeError only when it reported ERROR; on any other
\* status it sleeps and polls again, so that, as long as it runs, no poll
\* has reported FINISHED or ERROR; and once a poll reports one of the two,
\* the call ends.
C27_WaitUntilFinished ==
  /\ [](flink_pc = "returned"
          => flink_status = "FINISHED" /\ flink_error = "none")
  /\ [](flink_pc = "raised"
          => flink_status = "ERROR" /\ flink_error = "RuntimeError")
  /\ [](flink_pc \in {"poll", "sleep"}
          => \A i \in 1..Len(reported) : ~Final(reported[i]))
  /\ [](flink_pc \in {"check", "returned", "raised"}
          => /\ flink_status = reported[Len(reported)]
             /\ \A i \in 1..(Len(reported) - 1) : ~Final(reported[i]))
  /\ [][flink_pc = "check" /\ ~Final(flink_status) /\ flink_pc' # flink_pc
         => flink_pc' = "sleep"]_vars
  /\ [][flink_pc = "sleep" /\ flink_pc' # flink_pc => flink_pc' = "poll"]_vars
  /\ (flink_pc = "check" /\ Final(flink_status))
       ~> (flink_pc \in {"returned", "raised"})

\* The call has returned after polls that reported other statuses.
C27_Witness ==
  /\ flink_pc = "returned" /\ Len(reported) = MaxPolls
  /\ reported[1] = "None" /\ reported[2] = "CANCELED"

====
